---- MODULE Spec2Model ----
(***************************************************************************)
(* ExtensionCrawler/archive.py: the per-extension update pipeline          *)
(* (update_extension and the four fetch functions), the tar archive life   *)
(* cycle and the batch driver update_extensions.                           *)
(*                                                                         *)
(* The file system below <archivedir> is modelled per extension id: the    *)
(* current tar <shard>/<id>.tar, the backup <id>.bak.tar, the quarantined  *)
(* tars <id>.corrupt.<date>.tar and the scratch directory <shard>/<id>/.   *)
(* A file of a run directory is a record [run, name, ref]; ref is the run  *)
(* a .link record points at (0 elsewhere, and 0 for the empty date).       *)
(* The network, the disk and the clock are the environment: every request  *)
(* and every file operation the code guards (or fails to guard) may fail,  *)
(* at most MaxFaults times in one behaviour.                               *)
(***************************************************************************)
EXTENDS Integers, Sequences, FiniteSets, TLC

\* ------------------------------------------------------------- bounds
MaxLen == 2         \* Spec: length of the id lists handed to update_extensions
BatchRuns == 1      \* Spec: calls of update_extensions in one behaviour
BatchFaults == 1    \* Spec: environment failures in one behaviour
MaxRuns == 3        \* SpecArchive: updates of the one id in one behaviour
MaxFaults == 2      \* SpecArchive: environment failures in one behaviour
MaxLocs == 2        \* SpecDiscover: <loc> elements in one sitemap document

\* Extension ids (32 characters in the store; both live in shard "aaa").
Ids == {"aaab", "aaac"}

\* Pool(24)
PoolWidth == 24

\* A path that stops at the shard directory: the ids of a shard share it.
tardir_of_shard(ext_id) == "aaab"

\* Lines 130-131 and 327: tardir is <archivedir>/<ext_id[:3]>/<ext_id>, and
\* every file of the update is named from it (tar, line 328; the corrupt and
\* backup names, lines 347 and 377; the run directory, line 135). The path
\* holds the whole id: it is named here by the id.
tardir(ext_id) == ext_id

VARIABLES
    env,         \* what the environment may do: [ids, len, runs, faults]
    disc,        \* the call of crawl_nearly_all_of_ext_ids (discover.py)
    tarf,        \* [Ids -> tar]  <archivedir>/<shard>/<id>.tar
    bak,         \* [Ids -> tar]  <archivedir>/<shard>/<id>.bak.tar
    rot,         \* [Ids -> dates]  the rotated backups <id>.bak.<date>.tar
    quar,        \* [Ids -> set of [date, files, valid]]  <id>.corrupt.<date>.tar
    dirs,        \* [Ids -> [exists, files]]  scratch directory <shard>/<id>/
    clock,       \* datetime.now(): the last date handed out
    faults,      \* environment failures so far
    bpc,         \* position of update_extensions
    nbatch,      \* calls of update_extensions so far
    fullIds,     \* argument ext_ids of the running call
    forumIds,    \* argument forums_ext_ids of the running call
    nforum,      \* len(forums_ext_ids) after line 421
    tasks,       \* the update_extension calls of the running batch, in map order
    ret,         \* the list update_extensions returned
    hist         \* history, per id: the dates of its updates so far, whether one
                 \* of them raised or recorded a tar exception, and the files
                 \* the clean ones left in their run directories, and how many
                 \* of them repacked a current tar

vars == <<env, disc, tarf, bak, rot, quar, dirs, clock, faults, bpc, nbatch, fullIds,
          forumIds, nforum, tasks, ret, hist>>

fsvars == <<tarf, bak, rot, quar, dirs>>
batchvars == <<env, disc, bpc, nbatch, fullIds, forumIds, nforum, ret>>

\* ------------------------------------------------------------ helpers
Range(s) == {s[j] : j \in 1..Len(s)}

Max(S) == CHOOSE x \in S : \A y \in S : y <= x

SeqsUpTo(S, n) == UNION {[1..k -> S] : k \in 0..n}

\* The orders in which list(set(...)) may enumerate the set S.
Perms(S) ==
    {p \in [1..Cardinality(S) -> S] : \A a, b \in 1..Cardinality(S) : p[a] = p[b] => a = b}

\* ------------------------------------------------------- file system
NoFile == [exists |-> FALSE, files |-> {}, valid |-> FALSE]
NoDir == [exists |-> FALSE, files |-> {}]

File(run, name) == [run |-> run, name |-> name, ref |-> 0]
Link(run, name, target) == [run |-> run, name |-> name, ref |-> target]

RunsOf(files) == {f.run : f \in files}

\* The members of a tar or a directory that a reader or writer interrupted
\* part-way has handled: whole run directories, in listing order (any).
PartsOf(files) == {{f \in files : f.run \in R} : R \in SUBSET RunsOf(files)}

\* write_text, lines 134-138: makedirs(<scratch>/<date>, exist_ok) and the file.
write_text(d, f) == [exists |-> TRUE, files |-> d.files \cup {f}]

\* The first k of the writes ws, in order (k = Len(ws): all of them).
write_texts(d, ws, k) == [exists |-> (d.exists \/ k > 0), files |-> d.files \cup {ws[j] : j \in 1..k}]

\* The metadata without the url.
store_request_metadata_no_url(date, fname) ==
    << File(date, fname \o ".headers"), File(date, fname \o ".status") >>

\* store_request_metadata, lines 141-144
store_request_metadata(date, fname) ==
    << File(date, fname \o ".headers"), File(date, fname \o ".status"),
       File(date, fname \o ".url") >>

\* store_request_text, lines 147-149
store_request_text(date, fname) ==
    <<File(date, fname)>> \o store_request_metadata(date, fname)

\* ------------------------------------------------------ RequestResult
NoStatus == 0      \* response is None: the attribute http_status is never set

RequestResult(status, exception) == [http_status |-> status, exception |-> exception]

NoResult == [http_status |-> NoStatus, exception |-> "unset"]   \* res_reviews = None

RR_is_ok(r) == r.exception = "none" /\ r.http_status = 200
RR_not_modified(r) == r.exception = "none" /\ r.http_status = 304
RR_has_exception(r) == r.exception # "none"

\* ------------------------------------------------------- UpdateResult
UpdateResult(w) ==
    [id |-> w.id, new |-> w.is_new, exception |-> w.tar_exception,
     res_overview |-> w.res_overview, res_crx |-> w.res_crx,
     res_reviews |-> w.res_reviews, res_support |-> w.res_support]

UR_is_ok(u) ==
    /\ RR_is_ok(u.res_overview)
    /\ (RR_is_ok(u.res_crx) \/ RR_not_modified(u.res_crx))
    /\ (u.res_reviews = NoResult \/ RR_is_ok(u.res_reviews))
    /\ (u.res_support = NoResult \/ RR_is_ok(u.res_support))

UR_has_exception(u) ==
    \/ RR_has_exception(u.res_overview)
    \/ RR_has_exception(u.res_crx)
    \/ (u.res_reviews # NoResult /\ RR_has_exception(u.res_reviews))
    \/ (u.res_support # NoResult /\ RR_has_exception(u.res_support))

UR_not_modified(u) == RR_not_modified(u.res_crx)

\* A result that never reports an archive exception.
UR_corrupt_tar_never(u) == FALSE

UR_corrupt_tar(u) == u.exception # "none"

\* ------------------------------------------------ the environment
\* Whether c further failures fit the budget.
CanFail(c) == faults + c <= env.faults

\* Http statuses the servers answer with (200 is the expected answer).
OverviewStatuses == {200, 404}
PostStatuses == {200, 503}

StatusCost(s) == IF s = 200 THEN 0 ELSE 1

\* os.path.basename(res.url) of the package response: the redirect target
\* extension_1.crx, or the unredirected download URL (it holds '&').
UrlBasenames == {"extension_1.crx", "crx?response=redirect&x=id"}

\* re.search('&', extfilename), line 239
HasAmpersand(name) == name \in {"crx?response=redirect&x=id"}

\* regex_extfilename.match: ^extension[_0-9]+\.crx$, lines 202, 212
regex_extfilename_match(name) == name \in {"extension_1.crx"}

\* fnmatch '*.crx' of last_crx, line 180
IsCrxName(name) ==
    name \in {"extension_1.crx", "default.crx", "default_ext_archive.crx"}

Response(status, ctype, base) == [status |-> status, ctype |-> ctype, base |-> base]

\* The answers of the package server: the package, a 200 with one thing
\* wrong with it, 404, and 304 (only to a conditional request).
CrxResponses(conditional) ==
    {Response(200, "application/x-chrome-extension", "extension_1.crx"),
     Response(200, "text/html", "extension_1.crx"),
     Response(200, "absent", "extension_1.crx"),
     Response(200, "application/x-chrome-extension", "crx?response=redirect&x=id"),
     Response(404, "text/html", "crx?response=redirect&x=id")}
    \cup (IF conditional
          THEN {Response(304, "absent", "extension_1.crx")} ELSE {})

NoResponse == [status |-> NoStatus, ctype |-> "absent", base |-> ""]

\* lines 238-240
extfilename_of(res) == IF HasAmpersand(res.base) THEN "default.crx" ELSE res.base

\* The validation without the test of the Content-Type value.
validate_crx_response_any_type(res, extfilename) ==
    IF res.ctype = "absent" THEN "CrawlError"
    ELSE IF ~regex_extfilename_match(extfilename) THEN "CrawlError"
    ELSE "ok"

\* validate_crx_response, lines 201-215: "ok" or the error raised.
validate_crx_response(res, extfilename) ==
    IF res.ctype = "absent" THEN "CrawlError"
    ELSE IF res.ctype # "application/x-chrome-extension" THEN "CrawlError"
    ELSE IF ~regex_extfilename_match(extfilename) THEN "CrawlError"
    ELSE "ok"

\* An expected answer (a valid package, or 304) is no failure.
CrxCost(res) ==
    IF \/ res.status = 304
       \/ res.status = 200 /\ validate_crx_response(res, extfilename_of(res)) = "ok"
    THEN 0 ELSE 1

\* The scan with the filter '*.crx*': link records count as packages.
last_crx_with_links(files) ==
    LET old_crxs == {f \in files : f.name \in {"extension_1.crx", "default.crx",
                                                "default_ext_archive.crx",
                                                "extension_1.crx.link", "default.crx.link"}}
    IN IF old_crxs = {} THEN 0 ELSE Max(RunsOf(old_crxs))

\* old_crxs[0] in place of old_crxs[-1].
last_crx_first(files) ==
    LET old_crxs == {f \in files : IsCrxName(f.name)}
    IN IF old_crxs = {} THEN 0 ELSE CHOOSE r \in RunsOf(old_crxs) : \A q \in RunsOf(old_crxs) : r <= q

\* last_crx, lines 174-183, on the members of the tar: the date directory of
\* the last *.crx path in sorted order (last_modified_utc_date, lines 162-165);
\* 0 is the empty string.
last_crx(files) ==
    LET old_crxs == {f \in files : IsCrxName(f.name)}
    IN IF old_crxs = {} THEN 0 ELSE Max(RunsOf(old_crxs))

\* ---------------------------------------------------- update_extension
\* The locals of one call of update_extension, and what it has asked of the
\* network so far (reqs) and found on disk when it began (old, extract).
NewTask(id, forums) ==
    [id |-> id, forums |-> forums, pc |-> "wait", date |-> 0, is_new |-> FALSE,
     tar_exception |-> "none",
     res_overview |-> NoResult, res_crx |-> NoResult,
     res_reviews |-> NoResult, res_support |-> NoResult,
     old |-> NoFile, extract |-> "none", part |-> {}, repack |-> "none",
     crx |-> NoResponse, last |-> 0, reqs |-> <<>>, answers |-> <<>>, failed |-> {}]

\* The handler that drops the exception instead of keeping it.
tar_exception_dropped(w, step) == w

\* tar_exception = e, lines 344, 382, 395 and 406, in the handler of an archive
\* step: the exception the update returns is the last one assigned.
tar_exception(w, step) == [w EXCEPT !.tar_exception = step]

\* The archive step has raised (history: the steps that failed so far).
Failed(w, step) == [w EXCEPT !.failed = @ \cup {step}]

\* is_new set whatever is on disk.
is_new_always(t) == TRUE

\* Lines 319 and 328-329: is_new is True when the current tar t is not there.
is_new(t) == ~t.exists

Snapshot(w) == {f \in dirs[tardir(w.id)].files : f.run = w.date}

SetTask(i, w) ==
    /\ tasks' = [tasks EXCEPT ![i] = w]
    /\ hist' = [hist EXCEPT ![w.id] =
                  [dates |-> IF tasks[i].pc = "begin" THEN Append(@.dates, w.date)
                             ELSE @.dates,
                   dirty |-> \/ @.dirty
                             \/ w.pc = "raised"
                             \/ w.pc = "returned" /\ w.tar_exception # "none",
                   snap |-> IF w.pc = "returned" THEN @.snap \cup Snapshot(w)
                            ELSE @.snap,
                   made |-> IF w.repack = "ok" /\ tasks[i].repack # "ok"
                            THEN @.made + 1 ELSE @.made]]

Fault(c) == CanFail(c) /\ faults' = faults + c

\* After the fetch named by pc.
AfterOverview == "crx"

\* An update that repacks without renaming the current tar first.
AfterCrx_repack(w) == IF w.forums THEN "reviews" ELSE "repack"

AfterCrx(w) == IF w.forums THEN "reviews" ELSE "rename"

\* Lines 353-355: os.makedirs of the scratch directory, outside any try.
Makedirs(i, w, d) ==
    \/ /\ dirs' = [dirs EXCEPT ![tardir(w.id)] = [exists |-> TRUE, files |-> d.files]]
       /\ SetTask(i, [w EXCEPT !.pc = "overview"])
       /\ faults' = faults
    \/ /\ Fault(1)
       /\ dirs' = [dirs EXCEPT ![tardir(w.id)] = d]
       /\ SetTask(i, [w EXCEPT !.pc = "raised"])

\* An extraction that unpacks nothing.
extractall_nothing(t) == [exists |-> TRUE, files |-> {}]

\* Lines 335-337: what extractall of the tar t leaves in the scratch directory.
extractall(t) == [exists |-> TRUE, files |-> t.files]

\* The corrupt name without the date of the run.
quarantined_undated(t, date) == [date |-> 0, files |-> t.files, valid |-> t.valid]

\* Line 347: the tar t under its corrupt name.
quarantined(t, date) == [date |-> date, files |-> t.files, valid |-> t.valid]

\* Lines 318-355 for a new id: no tar, nothing to extract (the scratch
\* directory is left as it is found).
BeginNew(i) ==
    LET w == tasks[i]
        date == clock + 1
    IN /\ w.pc = "begin"
       /\ ~tarf[tardir(w.id)].exists
       /\ clock' = date
       /\ Makedirs(i, [w EXCEPT !.date = date, !.is_new = is_new(tarf[tardir(w.id)])], dirs[tardir(w.id)])
       /\ UNCHANGED <<tarf, bak, rot, quar, batchvars>>

\* Lines 318-355, the tar exists and extracts: rmtree of the scratch
\* directory, extractall.
BeginExtract(i) ==
    LET w == tasks[i]
        date == clock + 1
        t == tarf[tardir(w.id)]
    IN /\ w.pc = "begin"
       /\ t.exists
       /\ t.valid
       /\ clock' = date
       /\ Makedirs(i, [w EXCEPT !.date = date, !.is_new = is_new(t), !.old = t,
                               !.extract = "ok"],
                   extractall(t))
       /\ UNCHANGED <<tarf, bak, rot, quar, batchvars>>

\* Lines 339-351: extractall raises after unpacking part of the members; the
\* tar is moved to the corrupt name and the exception file written. A
\* failure of either is swallowed (line 350).
BeginCorrupt(i) ==
    LET w == tasks[i]
        date == clock + 1
        t == tarf[tardir(w.id)]
        c0 == IF t.valid THEN 1 ELSE 0
    IN /\ w.pc = "begin"
       /\ t.exists
       /\ clock' = date
       /\ \E part \in PartsOf(t.files) :
          LET d1 == [exists |-> part # {}, files |-> part]
              w1 == tar_exception(Failed([w EXCEPT !.date = date, !.is_new = is_new(t),
                                                     !.old = t,
                                                     !.extract = "stuck", !.part = part,
                                                     !.pc = "makedirs"], "extract"),
                                  "extract")
              w2 == [w1 EXCEPT !.extract = "quarantined"]
          IN \/ \* shutil.move and write_text succeed
                /\ CanFail(c0)
                /\ tarf' = [tarf EXCEPT ![tardir(w.id)] = NoFile]
                /\ quar' = [quar EXCEPT ![tardir(w.id)] = @ \cup {quarantined(t, date)}]
                /\ \/ /\ dirs' = [dirs EXCEPT ![tardir(w.id)] =
                                    write_text(d1, File(date, "corrupt.exception"))]
                      /\ SetTask(i, w2)
                      /\ faults' = faults + c0
                   \/ \* write_text raises
                      /\ Fault(c0 + 1)
                      /\ dirs' = [dirs EXCEPT ![tardir(w.id)] = d1]
                      /\ SetTask(i, w2)
             \/ \* shutil.move raises: the tar stays where it is
                /\ Fault(c0 + 1)
                /\ dirs' = [dirs EXCEPT ![tardir(w.id)] = d1]
                /\ SetTask(i, w1)
                /\ UNCHANGED <<tarf, quar>>
       /\ UNCHANGED <<bak, rot, batchvars>>

\* Lines 353-355 after a failed extraction.
BeginMakedirs(i) ==
    LET w == tasks[i]
    IN /\ w.pc = "makedirs"
       /\ Makedirs(i, w, dirs[tardir(w.id)])
       /\ UNCHANGED <<tarf, bak, rot, quar, clock, batchvars>>

Answer(kind, status) == [kind |-> kind, status |-> status]

Req(kind, offset, since) == [kind |-> kind, offset |-> offset, since |-> since]

\* update_overview, lines 186-198: one GET, store_request_text inside the
\* try, the exception file written by the handler (outside any try).
update_overview(i) ==
    LET w == tasks[i]
        d == dirs[tardir(w.id)]
        ws == store_request_text(w.date, "overview.html")
        exf == File(w.date, "overview.html.exception")
        w1 == [w EXCEPT !.reqs = Append(@, Req("overview", 0, 0))]
    IN /\ w.pc = "overview"
       /\ \/ \* the GET is answered and the four files are written
             \E s \in OverviewStatuses :
                /\ Fault(StatusCost(s))
                /\ dirs' = [dirs EXCEPT ![tardir(w.id)] = write_texts(d, ws, Len(ws))]
                /\ SetTask(i, [w1 EXCEPT !.pc = AfterOverview,
                                         !.res_overview = RequestResult(s, "none")])
          \/ \* requests.get raises (timeout, connection error)
             /\ Fault(1)
             /\ dirs' = [dirs EXCEPT ![tardir(w.id)] = write_text(d, exf)]
             /\ SetTask(i, [w1 EXCEPT !.pc = AfterOverview,
                                      !.res_overview = RequestResult(NoStatus, "RequestException")])
          \/ \* store_request_text raises at its first write
             \E s \in OverviewStatuses :
                /\ Fault(StatusCost(s) + 1)
                /\ dirs' = [dirs EXCEPT ![tardir(w.id)] = write_text(write_texts(d, ws, 0), exf)]
                /\ SetTask(i, [w1 EXCEPT !.pc = AfterOverview,
                                         !.res_overview = RequestResult(s, "OSError")])
          \/ \* requests.get raises and so does the handler's write_text
             /\ Fault(2)
             /\ dirs' = dirs
             /\ SetTask(i, [w1 EXCEPT !.pc = "raised"])
       /\ UNCHANGED <<tarf, bak, rot, quar, clock, batchvars>>

\* update_crx, lines 218-260. The scan of the current tar (last_crx) comes
\* before the try; ReadTarFS of a tar that does not extract may raise or list.
update_crx(i) ==
    LET w == tasks[i]
        d == dirs[tardir(w.id)]
        t == tarf[tardir(w.id)]
        last == IF t.exists THEN last_crx(t.files) ELSE 0
        w1 == [w EXCEPT !.last = last, !.reqs = Append(@, Req("crx", 0, last))]
        done == AfterCrx(w)
    IN /\ w.pc = "crx"
       /\ \/ \* last_crx raises: ReadTarFS on an unreadable tar
             /\ t.exists
             /\ Fault(IF t.valid THEN 1 ELSE 0)
             /\ dirs' = dirs
             /\ SetTask(i, [w EXCEPT !.pc = "raised"])
          \/ \* requests.get raises
             /\ Fault(1)
             /\ dirs' = [dirs EXCEPT ![tardir(w.id)] =
                           write_text(d, File(w.date, "default_ext_archive.crx.exception"))]
             /\ SetTask(i, [w1 EXCEPT !.pc = done,
                                      !.res_crx = RequestResult(NoStatus, "RequestException")])
          \/ \E res \in CrxResponses(last # 0) :
             LET extfilename == extfilename_of(res)
                 meta == store_request_metadata(w.date, extfilename)
                 verdict == IF res.status = 200
                            THEN validate_crx_response(res, extfilename) ELSE "ok"
                 ws == meta \o
                       (IF res.status = 304
                        THEN <<Link(w.date, extfilename \o ".link", last)>>
                        ELSE IF res.status = 200 /\ verdict = "ok"
                        THEN <<File(w.date, extfilename)>>
                        ELSE <<>>)
                 exf == File(w.date, extfilename \o ".exception")
                 w2 == [w1 EXCEPT !.crx = res, !.pc = done]
             IN \/ \* no exception: sidecars, and the link or the payload
                   /\ verdict = "ok"
                   /\ Fault(CrxCost(res))
                   /\ dirs' = [dirs EXCEPT ![tardir(w.id)] = write_texts(d, ws, Len(ws))]
                   /\ SetTask(i, [w2 EXCEPT !.res_crx = RequestResult(res.status, "none")])
                \/ \* validate_crx_response raises
                   /\ verdict # "ok"
                   /\ Fault(CrxCost(res))
                   /\ dirs' = [dirs EXCEPT ![tardir(w.id)] =
                                 write_text(write_texts(d, ws, Len(ws)), exf)]
                   /\ SetTask(i, [w2 EXCEPT !.res_crx = RequestResult(res.status, verdict)])
                \/ \* store_request_metadata raises at its first write, or
                   \* the write of the link does
                   \E k \in {0} \cup (IF res.status = 304 THEN {Len(meta)} ELSE {}) :
                      /\ Fault(CrxCost(res) + 1)
                      /\ dirs' = [dirs EXCEPT ![tardir(w.id)] =
                                    write_text(write_texts(d, ws, k), exf)]
                      /\ SetTask(i, [w2 EXCEPT !.res_crx = RequestResult(res.status, "OSError")])
                \/ \* the download breaks after the payload file is opened
                   /\ res.status = 200 /\ verdict = "ok"
                   /\ Fault(1)
                   /\ dirs' = [dirs EXCEPT ![tardir(w.id)] =
                                 write_text(write_texts(d, ws, Len(ws)), exf)]
                   /\ SetTask(i, [w2 EXCEPT !.res_crx = RequestResult(res.status, "RequestException")])
                \/ \* validation or the first write raises, and the handler's
                   \* write_text raises too
                   /\ Fault(CrxCost(res) + (IF verdict = "ok" THEN 2 ELSE 1))
                   /\ dirs' = [dirs EXCEPT ![tardir(w.id)] =
                                 write_texts(d, ws, IF verdict = "ok" THEN 0 ELSE Len(ws))]
                   /\ SetTask(i, [w2 EXCEPT !.pc = "raised"])
       /\ UNCHANGED <<tarf, bak, rot, quar, clock, batchvars>>

\* update_reviews (lines 263-287) and update_support (lines 290-314): two
\* POSTs, each stored by store_request_text inside one try; the handler
\* writes <kind>.html.exception and keeps the last response received.
\* off2 is the offset the second POST asks for.
update_forum(i, kind, off2, next) ==
    LET w == tasks[i]
        d == dirs[tardir(w.id)]
        ws1 == store_request_text(w.date, kind \o "000-099.text")
        ws2 == store_request_text(w.date, kind \o "100-199.text")
        exf == File(w.date, kind \o ".html.exception")
        r1 == Req(kind, 0, 0)
        r2 == Req(kind, off2, 0)
        set(wx, rr) == IF kind = "reviews" THEN [wx EXCEPT !.res_reviews = rr]
                       ELSE [wx EXCEPT !.res_support = rr]
        w1 == [w EXCEPT !.reqs = Append(@, r1), !.pc = next]
        w2 == [w EXCEPT !.reqs = @ \o <<r1, r2>>, !.pc = next]
        \* history: the status each POST was answered with (NoStatus: it raised)
        got(wx, ss) == [wx EXCEPT !.answers = @ \o [k \in 1..Len(ss) |-> Answer(kind, ss[k])]]
    IN \/ \* both POSTs are answered and stored: the result is the second's
          \E s1, s2 \in PostStatuses :
             /\ Fault(StatusCost(s1) + StatusCost(s2))
             /\ dirs' = [dirs EXCEPT ![tardir(w.id)] = write_texts(d, ws1 \o ws2, Len(ws1) + Len(ws2))]
             /\ SetTask(i, set(got(w2, <<s1, s2>>), RequestResult(s2, "none")))
       \/ \* the first POST raises
          /\ Fault(1)
          /\ dirs' = [dirs EXCEPT ![tardir(w.id)] = write_text(d, exf)]
          /\ SetTask(i, set(got(w1, <<NoStatus>>), RequestResult(NoStatus, "RequestException")))
       \/ \* the first is stored and the second POST raises
          \E s1 \in PostStatuses :
             /\ Fault(StatusCost(s1) + 1)
             /\ dirs' = [dirs EXCEPT ![tardir(w.id)] = write_text(write_texts(d, ws1, Len(ws1)), exf)]
             /\ SetTask(i, set(got(w2, <<s1, NoStatus>>), RequestResult(s1, "RequestException")))
       \/ \* store_request_text of the first page raises at its first write
          \E s1 \in PostStatuses :
             /\ Fault(StatusCost(s1) + 1)
             /\ dirs' = [dirs EXCEPT ![tardir(w.id)] = write_text(write_texts(d, ws1, 0), exf)]
             /\ SetTask(i, set(got(w1, <<s1>>), RequestResult(s1, "OSError")))
       \/ \* store_request_text of the second page raises at its first write
          \E s1, s2 \in PostStatuses :
             /\ Fault(StatusCost(s1) + StatusCost(s2) + 1)
             /\ dirs' = [dirs EXCEPT ![tardir(w.id)] =
                           write_text(write_texts(d, ws1 \o ws2, Len(ws1)), exf)]
             /\ SetTask(i, set(got(w2, <<s1, s2>>), RequestResult(s2, "OSError")))
       \/ \* the first POST raises and so does the handler's write_text
          /\ Fault(2)
          /\ dirs' = dirs
          /\ SetTask(i, [got(w1, <<NoStatus>>) EXCEPT !.pc = "raised"])

\* line 278: the second reviews POST asks for offset "0" again
update_reviews(i) ==
    /\ tasks[i].pc = "reviews"
    /\ update_forum(i, "reviews", 0, "support")
    /\ UNCHANGED <<tarf, bak, rot, quar, clock, batchvars>>

\* line 305: the second support POST asks for offset "100"
update_support(i) ==
    /\ tasks[i].pc = "support"
    /\ update_forum(i, "support", 100, "rename")
    /\ UNCHANGED <<tarf, bak, rot, quar, clock, batchvars>>

\* The test of line 369 with the dot of the backup name in it.
stale_bak_exists_dotted(id) == bak[id].exists

\* Line 369 tests <id>bak.tar (no dot before "bak"), a name nothing creates.
stale_bak_exists(id) == FALSE

\* Lines 367-373: what the rotation leaves of the backup b and the rotated
\* backups r of id, and the failures it took (they are swallowed).
Rotations(id, b, r, date) ==
    IF ~stale_bak_exists(id) THEN {[bak |-> b, rot |-> r, cost |-> 0]}
    ELSE IF ~b.exists THEN {[bak |-> b, rot |-> r, cost |-> 0]}   \* move raises: no source
    ELSE {[bak |-> NoFile, rot |-> r, cost |-> 0],               \* moved, removed
          [bak |-> b, rot |-> r, cost |-> 1],                    \* shutil.move raises
          [bak |-> NoFile, rot |-> r \cup {date}, cost |-> 1]}   \* os.remove raises

\* A move that leaves an older backup in place.
moved_keep_older(t, b) == IF b.exists THEN b ELSE t

\* shutil.move(tar, tardir + ".bak.tar"), line 377: the backup is the file
\* the current tar was, whatever backup b was there.
moved(t, b) == t

\* Lines 367-386: rotate the backup, then move the current tar to
\* <id>.bak.tar (shutil.move replaces an older backup).
RenameOld(i) ==
    LET w == tasks[i]
        d == dirs[tardir(w.id)]
        t == tarf[tardir(w.id)]
        exf == File(w.date, "tar.rename.exception")
        w1 == [w EXCEPT !.pc = "repack"]
        w2 == tar_exception(Failed(w1, "rename"), "rename")
    IN /\ w.pc = "rename"
       /\ \E ro \in Rotations(w.id, bak[tardir(w.id)], rot[tardir(w.id)], w.date) :
          /\ rot' = [rot EXCEPT ![tardir(w.id)] = ro.rot]
          /\ \/ \* line 376: no current tar
                /\ ~t.exists
                /\ Fault(ro.cost)
                /\ bak' = [bak EXCEPT ![tardir(w.id)] = ro.bak]
                /\ SetTask(i, w1)
                /\ UNCHANGED <<tarf, dirs>>
             \/ \* line 377
                /\ t.exists
                /\ Fault(ro.cost)
                /\ bak' = [bak EXCEPT ![tardir(w.id)] = moved(t, ro.bak)]
                /\ tarf' = [tarf EXCEPT ![tardir(w.id)] = NoFile]
                /\ SetTask(i, w1)
                /\ UNCHANGED dirs
             \/ \* shutil.move raises, lines 378-386
                /\ t.exists
                /\ \/ /\ Fault(ro.cost + 1)
                      /\ dirs' = [dirs EXCEPT ![tardir(w.id)] = write_text(d, exf)]
                   \/ /\ Fault(ro.cost + 2)
                      /\ dirs' = dirs
                /\ bak' = [bak EXCEPT ![tardir(w.id)] = ro.bak]
                /\ SetTask(i, w2)
                /\ UNCHANGED tarf
       /\ UNCHANGED <<quar, clock, batchvars>>

\* A repack of the run directory written last only.
packed_latest(files) ==
    [exists |-> TRUE, files |-> {f \in files : f.run = Max(RunsOf(files))}, valid |-> TRUE]

\* The tar tarfile.open(tar, 'w') / ar.add / ar.close leave behind.
packed(files) == [exists |-> TRUE, files |-> files, valid |-> TRUE]

\* Lines 387-399: repack the scratch directory as the current tar.
Repack(i) ==
    LET w == tasks[i]
        d == dirs[tardir(w.id)]
        exf == File(w.date, "tar.create.exception")
        w1 == [w EXCEPT !.pc = "rmtree", !.repack = "ok"]
        w2 == tar_exception(Failed([w1 EXCEPT !.repack = "failed"], "create"), "create")
    IN /\ w.pc = "repack"
       /\ \/ /\ tarf' = [tarf EXCEPT ![tardir(w.id)] = packed(d.files)]
             /\ SetTask(i, w1)
             /\ UNCHANGED <<dirs, faults>>
          \/ \* tarfile.open raises: no file is created
             /\ \/ /\ Fault(1)
                   /\ dirs' = [dirs EXCEPT ![tardir(w.id)] = write_text(d, exf)]
                \/ /\ Fault(2)
                   /\ dirs' = dirs
             /\ SetTask(i, w2)
             /\ UNCHANGED tarf
          \/ \* ar.add or ar.close raises: the file holds what was written
             \E part \in PartsOf(d.files), v \in BOOLEAN :
                /\ Fault(1)
                /\ tarf' = [tarf EXCEPT ![tardir(w.id)] =
                              [exists |-> TRUE, files |-> part, valid |-> v]]
                /\ dirs' = [dirs EXCEPT ![tardir(w.id)] = write_text(d, exf)]
                /\ SetTask(i, w2)
       /\ UNCHANGED <<bak, rot, quar, clock, batchvars>>

\* Lines 400-414: remove the scratch directory and return the UpdateResult.
RemoveScratch(i) ==
    LET w == tasks[i]
        d == dirs[tardir(w.id)]
        exf == File(w.date, "dir.remove.exception")
        w1 == [w EXCEPT !.pc = "returned"]
        w2 == tar_exception(Failed(w1, "remove"), "remove")
    IN /\ w.pc = "rmtree"
       /\ \/ /\ dirs' = [dirs EXCEPT ![tardir(w.id)] = NoDir]
             /\ SetTask(i, w1)
             /\ faults' = faults
          \/ \* shutil.rmtree raises part-way
             \E part \in PartsOf(d.files) :
                /\ \/ /\ Fault(1)
                      /\ dirs' = [dirs EXCEPT ![tardir(w.id)] =
                                    write_text([exists |-> TRUE, files |-> part], exf)]
                   \/ /\ Fault(2)
                      /\ dirs' = [dirs EXCEPT ![tardir(w.id)] = [exists |-> TRUE, files |-> part]]
                /\ SetTask(i, w2)
       /\ UNCHANGED <<tarf, bak, rot, quar, clock, batchvars>>

\* ---------------------------------------------------- update_extensions
\* line 420: ext_ids = list(set(ext_ids) - set(forums_ext_ids))
ext_ids_without_forums(ext_ids, forums_ext_ids) == Range(ext_ids) \ Range(forums_ext_ids)

\* The forum list without set(): duplicates are kept.
forums_list_keep_duplicates(ext_ids, forums_ext_ids) == {forums_ext_ids}

\* The forum list cut down to the ids of ext_ids.
forums_list_in_ext_ids(ext_ids, forums_ext_ids) ==
    Perms(Range(forums_ext_ids) \cap Range(ext_ids))

\* line 421: forums_ext_ids = list(set(forums_ext_ids)), in any order
forums_list(ext_ids, forums_ext_ids) == Perms(Range(forums_ext_ids))

\* line 436: parallel_ids = list(set(ext_ids) - set(forums_ext_ids))
parallel_ids(ext_ids, forums_ext_ids) == Perms(ext_ids \ Range(forums_ext_ids))

TasksOf(list, forums) == [j \in 1..Len(list) |-> NewTask(list[j], forums)]

Running(w) == w.pc \notin {"wait", "returned", "raised"}

\* The forum ids in map order, as lines 430-433 got them.
ForumTasks == SubSeq(tasks, 1, nforum)
PoolTasks == SubSeq(tasks, nforum + 1, Len(tasks))

\* Lines 417-429: the call, up to the sequential map.
update_extensions(ext_ids, forums_ext_ids) ==
    /\ bpc \in {"idle", "done", "raised"}
    /\ nbatch < env.runs
    /\ nbatch' = nbatch + 1
    /\ fullIds' = ext_ids
    /\ forumIds' = forums_ext_ids
    /\ \E l \in forums_list(ext_ids, forums_ext_ids) :
          /\ tasks' = TasksOf(l, TRUE)
          /\ nforum' = Len(l)
    /\ bpc' = "seq"
    /\ ret' = <<>>
    /\ UNCHANGED <<env, disc, fsvars, clock, faults, hist>>

\* A map that hands out an item whatever has become of the items before it.
map_any(i) == TRUE

\* list(map(f, l)), lines 430-433, calls f on the items of l in order, in
\* the calling process: item i is next once the calls before it returned.
map_next(i) == \A j \in 1..(i - 1) : tasks[j].pc = "returned"

\* Lines 430-433: the next forum id is updated.
SeqStart(i) ==
    /\ bpc = "seq"
    /\ i <= nforum
    /\ tasks[i].pc = "wait"
    /\ map_next(i)
    /\ SetTask(i, [tasks[i] EXCEPT !.pc = "begin"])
    /\ UNCHANGED <<fsvars, clock, faults, batchvars>>

\* An exception of update_extension leaves map() and update_extensions.
SeqRaise ==
    /\ bpc = "seq"
    /\ \E j \in 1..nforum : tasks[j].pc = "raised"
    /\ bpc' = "raised"
    /\ UNCHANGED <<env, disc, fsvars, clock, faults, nbatch, fullIds, forumIds, nforum, ret, tasks, hist>>

\* A pool that is handed its ids while the sequential map is still at work.
map_returned_early == TRUE

\* Line 433: list(map(...)) has returned, every forum update with it; only
\* then are lines 436-444 reached.
map_returned == \A j \in 1..nforum : tasks[j].pc = "returned"

\* Lines 436-444: the parallel ids are handed to the pool.
PoolMap ==
    /\ bpc = "seq"
    /\ map_returned
    /\ \E l \in parallel_ids(ext_ids_without_forums(fullIds, forumIds),
                             [j \in 1..nforum |-> tasks[j].id]) :
          tasks' = tasks \o TasksOf(l, FALSE)
    /\ bpc' = "par"
    /\ UNCHANGED <<env, disc, fsvars, clock, faults, nbatch, fullIds, forumIds, nforum, ret, hist>>

\* A pool process takes a task (chunks of one id: at most 96 ids).
PoolStart(i) ==
    /\ bpc = "par"
    /\ i > nforum
    /\ tasks[i].pc = "wait"
    /\ Cardinality({j \in (nforum + 1)..Len(tasks) : Running(tasks[j])}) < PoolWidth
    /\ SetTask(i, [tasks[i] EXCEPT !.pc = "begin"])
    /\ UNCHANGED <<fsvars, clock, faults, batchvars>>

\* The two lists the other way round.
returned_list_pool_first(ext_with_forums, ext_without_forums) ==
    ext_without_forums \o ext_with_forums

\* line 446: return ext_with_forums + ext_without_forums
returned_list(ext_with_forums, ext_without_forums) ==
    ext_with_forums \o ext_without_forums

\* p.map returns once every task is done, lines 440-446; it raises the first
\* exception of a task instead.
PoolJoin ==
    /\ bpc = "par"
    /\ \A j \in (nforum + 1)..Len(tasks) : tasks[j].pc \in {"returned", "raised"}
    /\ IF \E j \in (nforum + 1)..Len(tasks) : tasks[j].pc = "raised"
       THEN bpc' = "raised" /\ ret' = ret
       ELSE /\ bpc' = "done"
            /\ ret' = returned_list(
                          [j \in 1..nforum |-> UpdateResult(tasks[j])],
                          [j \in 1..(Len(tasks) - nforum) |-> UpdateResult(tasks[nforum + j])])
    /\ UNCHANGED <<env, disc, fsvars, clock, faults, nbatch, fullIds, forumIds, nforum, tasks, hist>>

\* ------------------------------------- crawl_nearly_all_of_ext_ids
\* discover.py, lines 27-45. A sitemap document is [parsable, locs]: whether
\* ET.fromstring accepts the text, and the texts of its <loc> elements.

\* URLs of the sitemap index: two shard URLs of the generic form and one
\* other URL.
GenericUrls == {"sitemap?shard=0&numshards=2", "sitemap?shard=1&numshards=2"}
IndexUrls == GenericUrls \cup {"sitemap?hl=en"}

\* URLs a shard lists: two detail pages, and a URL without an id in it.
ListingUrls == {"detail/aaab", "detail/aaac", "collection/top"}

\* The filter that lets every URL of the index through.
is_generic_url_any(url) == TRUE

\* is_generic_url, lines 32-34
is_generic_url(url) == url \in GenericUrls

\* re.search("[a-z]{32}", url), line 45: the id in the URL, "" for None.
ext_id_in(url) ==
    IF url = "detail/aaab" THEN "aaab" ELSE IF url = "detail/aaac" THEN "aaac" ELSE ""

\* get_inner_elems, lines 28-30, of a parsable document
get_inner_elems(doc) == doc.locs

\* filter(), line 39
FilterSeq(seq) == SelectSeq(seq, is_generic_url)

\* reduce(lambda x, y: x + y, ..., []), lines 42-44
RECURSIVE Concat(_)
Concat(ss) == IF ss = <<>> THEN <<>> ELSE Head(ss) \o Concat(Tail(ss))

\* What requests.get(url) comes to: it raises, or a response of some status
\* whose text parses or not. raise_for_status is never called.
Documents(urls) ==
    {[parsable |-> FALSE, locs |-> <<>>]}
    \cup {[parsable |-> TRUE, locs |-> l] : l \in SeqsUpTo(urls, MaxLocs)}

Fetches(urls) ==
    {[raised |-> TRUE, status |-> NoStatus, doc |-> [parsable |-> FALSE, locs |-> <<>>]]}
    \cup {[raised |-> FALSE, status |-> st, doc |-> d] : st \in {200, 503}, d \in Documents(urls)}

NoDisc == [pc |-> "idle", index |-> <<>>, shard_urls |-> <<>>, shards |-> <<>>,
           result |-> <<>>]

\* Lines 36-39: the index is fetched and parsed, the shard URLs filtered.
get_sitemap ==
    /\ disc.pc = "idle"
    /\ \E f \in Fetches(IndexUrls) :
          disc' = IF f.raised \/ ~f.doc.parsable
                  THEN [disc EXCEPT !.pc = "raised", !.index = <<f>>]
                  ELSE [disc EXCEPT !.pc = "shards", !.index = <<f>>,
                                    !.shard_urls = FilterSeq(get_inner_elems(f.doc))]
    /\ UNCHANGED <<env, fsvars, clock, faults, bpc, nbatch, fullIds, forumIds, nforum,
                   tasks, ret, hist>>

\* Line 40: the next shard is fetched, in the order of the index.
get_shard ==
    /\ disc.pc = "shards"
    /\ Len(disc.shards) < Len(disc.shard_urls)
    /\ \E f \in Fetches(ListingUrls) :
          disc' = IF f.raised
                  THEN [disc EXCEPT !.pc = "raised", !.shards = Append(@, f)]
                  ELSE [disc EXCEPT !.shards = Append(@, f)]
    /\ UNCHANGED <<env, fsvars, clock, faults, bpc, nbatch, fullIds, forumIds, nforum,
                   tasks, ret, hist>>

\* Lines 42-45: the shards are parsed and the ids taken from their URLs.
\* ET.fromstring raises on a text that does not parse, and .group(0) on the
\* None of a URL without an id.
get_ids ==
    /\ disc.pc = "shards"
    /\ Len(disc.shards) = Len(disc.shard_urls)
    /\ LET overview_urls ==
              Concat([k \in 1..Len(disc.shards) |-> get_inner_elems(disc.shards[k].doc)])
       IN disc' = IF \/ \E k \in 1..Len(disc.shards) : ~disc.shards[k].doc.parsable
                     \/ \E k \in 1..Len(overview_urls) : ext_id_in(overview_urls[k]) = ""
                  THEN [disc EXCEPT !.pc = "raised"]
                  ELSE [disc EXCEPT !.pc = "returned",
                           !.result = [k \in 1..Len(overview_urls) |->
                                          ext_id_in(overview_urls[k])]]
    /\ UNCHANGED <<env, fsvars, clock, faults, bpc, nbatch, fullIds, forumIds, nforum,
                   tasks, ret, hist>>

\* --------------------------------------------------------------- spec
NoTar == [id \in Ids |-> NoFile]

NoHist == [dates |-> <<>>, dirty |-> FALSE, snap |-> {}, made |-> 0]

\* The run directory a first update of a non-forum id leaves when every
\* fetch is answered 200 and the package is valid.
FirstRun(date) ==
    Range(store_request_text(date, "overview.html")
          \o store_request_metadata(date, "extension_1.crx")
          \o <<File(date, "extension_1.crx")>>)

\* No call of update_extensions is running, no file but the current tars.
Start ==
    /\ disc = NoDisc
    /\ bak = NoTar
    /\ rot = [id \in Ids |-> {}]
    /\ quar = [id \in Ids |-> {}]
    /\ dirs = [id \in Ids |-> NoDir]
    /\ faults = 0
    /\ bpc = "idle"
    /\ nbatch = 0
    /\ fullIds = <<>>
    /\ forumIds = <<>>
    /\ nforum = 0
    /\ tasks = <<>>
    /\ ret = <<>>

Next ==
    \/ \E ext_ids, forums_ext_ids \in SeqsUpTo(env.ids, env.len) :
          update_extensions(ext_ids, forums_ext_ids)
    \/ \E i \in DOMAIN tasks : SeqStart(i)
    \/ SeqRaise
    \/ PoolMap
    \/ \E i \in DOMAIN tasks : PoolStart(i)
    \/ PoolJoin
    \/ \E i \in DOMAIN tasks : BeginNew(i)
    \/ \E i \in DOMAIN tasks : BeginExtract(i)
    \/ \E i \in DOMAIN tasks : BeginCorrupt(i)
    \/ \E i \in DOMAIN tasks : BeginMakedirs(i)
    \/ \E i \in DOMAIN tasks : update_overview(i)
    \/ \E i \in DOMAIN tasks : update_crx(i)
    \/ \E i \in DOMAIN tasks : update_reviews(i)
    \/ \E i \in DOMAIN tasks : update_support(i)
    \/ \E i \in DOMAIN tasks : RenameOld(i)
    \/ \E i \in DOMAIN tasks : Repack(i)
    \/ \E i \in DOMAIN tasks : RemoveScratch(i)

\* Batches over both ids; an earlier batch has archived "aaab" once.
Init ==
    /\ env = [ids |-> Ids, len |-> MaxLen, runs |-> BatchRuns, faults |-> BatchFaults]
    /\ Start
    /\ clock = 1
    /\ tarf = [NoTar EXCEPT !["aaab"] = packed(FirstRun(clock))]
    /\ hist = [id \in Ids |-> IF id = "aaab"
                               THEN [dates |-> <<clock>>, dirty |-> FALSE,
                                     snap |-> FirstRun(clock), made |-> 1]
                               ELSE NoHist]

Spec == Init /\ [][Next]_vars

\* Every request returns or times out and every process keeps running: a
\* step that can be taken is taken.
SpecLive == Init /\ [][Next]_vars /\ WF_vars(Next)

\* Successive updates of one id, from its first.
InitArchive ==
    /\ env = [ids |-> {"aaab"}, len |-> 1, runs |-> MaxRuns, faults |-> MaxFaults]
    /\ Start
    /\ clock = 0
    /\ tarf = NoTar
    /\ hist = [id \in Ids |-> NoHist]

SpecArchive == InitArchive /\ [][Next]_vars

\* One call of crawl_nearly_all_of_ext_ids.
NextDiscover == get_sitemap \/ get_shard \/ get_ids

SpecDiscover == InitArchive /\ [][NextDiscover]_vars

\* ------------------------------------------------------------- claims
IdsOf(ts) == {ts[j].id : j \in 1..Len(ts)}

\* C1: in one batch every id of fullIds is handed to update_extension exactly
\* once, the ids of the sequential path and of the pool are disjoint, and no
\* two calls of the batch are for the same id; when the batch returns every
\* call has returned.
C1_EveryIdOnce ==
    /\ \A a, b \in DOMAIN tasks : a # b => tasks[a].id # tasks[b].id
    /\ IdsOf(ForumTasks) \cap IdsOf(PoolTasks) = {}
    /\ bpc \in {"par", "done"} =>
          \A id \in Range(fullIds) : Cardinality({j \in DOMAIN tasks : tasks[j].id = id}) = 1
    /\ bpc = "done" => \A j \in DOMAIN tasks : tasks[j].pc = "returned"

\* A batch with duplicates in both lists has returned, one id on each path.
C1_Witness ==
    /\ bpc = "done"
    /\ Len(fullIds) = 2 /\ fullIds[1] = fullIds[2]
    /\ Len(forumIds) = 2 /\ forumIds[1] = forumIds[2]
    /\ forumIds[1] # fullIds[1]
    /\ nforum = 1 /\ Len(tasks) = 2

\* C2 as claimed: the sequential path updates forumIds \cap fullIds, the pool
\* fullIds minus that set, and a forum id outside fullIds is never updated.
C2_AsClaimed ==
    bpc \in {"seq", "par", "done"} =>
       /\ IdsOf(ForumTasks) = Range(forumIds) \cap Range(fullIds)
       /\ bpc # "seq" =>
             IdsOf(PoolTasks) = Range(fullIds) \ (Range(forumIds) \cap Range(fullIds))

\* C2, amended: the sequential path updates every id of forumIds, in fullIds
\* or not, and the pool updates fullIds minus forumIds.
C2_Routing ==
    bpc \in {"seq", "par", "done"} =>
       /\ IdsOf(ForumTasks) = Range(forumIds)
       /\ bpc # "seq" => IdsOf(PoolTasks) = Range(fullIds) \ Range(forumIds)

\* A returned batch that updated a forum id that is not in fullIds, and a
\* non-forum id on the pool.
C2_Witness ==
    /\ bpc = "done"
    /\ \E j \in 1..nforum : tasks[j].id \notin Range(fullIds) /\ tasks[j].pc = "returned"
    /\ \E j \in (nforum + 1)..Len(tasks) : tasks[j].pc = "returned"

\* C3 as claimed: whatever step of an update fails, no exception leaves
\* update_extension and the batch is never aborted.
C3_BatchNeverAborts ==
    /\ bpc # "raised"
    /\ \A j \in DOMAIN tasks : tasks[j].pc # "raised"

\* The extraction of the current tar failed in the update w.
ExtractFailed(w) == w.extract \in {"quarantined", "stuck"}

\* The fetches of w are over and its scratch directory is still there.
Fetched(w) == w.pc \in {"reviews", "support", "rename", "repack", "rmtree"}

IsLinkName(name) == name \in {"extension_1.crx.link", "default.crx.link"}

HasPayload(files) == \E f \in files : IsCrxName(f.name)

\* The run of the last package payload among files (0: none).
LatestPackageRun(files) ==
    IF HasPayload(files) THEN Max({f.run : f \in {g \in files : IsCrxName(g.name)}}) ELSE 0

Idle(id) == \A j \in DOMAIN tasks : tasks[j].id = id => tasks[j].pc \in {"wait", "returned"}

\* C5: while every update of an id so far has returned without a tar
\* exception, the current tar holds exactly one run directory per update,
\* their dates ascending in the order of the updates, each with the files
\* written during that run.
C5_OneRunDirPerUpdate ==
    \A id \in Ids :
       LET h == hist[id]
           t == tarf[id]
       IN ~h.dirty /\ Idle(id) =>
             /\ \A a, b \in 1..Len(h.dates) : a < b => h.dates[a] < h.dates[b]
             /\ RunsOf(t.files) = Range(h.dates)
             /\ Cardinality(RunsOf(t.files)) = Len(h.dates)
             /\ t.files = h.snap
             /\ Len(h.dates) > 0 => t.exists /\ t.valid

\* Two clean updates, the second answered 304 (unchanged content): the tar
\* holds two run directories, the second with a link.
C5_Witness ==
    \E id \in Ids :
       /\ ~hist[id].dirty /\ Idle(id)
       /\ Len(hist[id].dates) = 2
       /\ Cardinality(RunsOf(tarf[id].files)) = 2
       /\ \E f \in tarf[id].files : IsLinkName(f.name) /\ f.run = hist[id].dates[2]

\* C6 as claimed: after any update whose extraction failed, the old tar is
\* kept under the corrupt name of the run and a valid current tar holds the
\* run's directory.
C6_AsClaimed ==
    \A j \in DOMAIN tasks :
       LET w == tasks[j]
       IN w.pc = "returned" /\ ExtractFailed(w) =>
             /\ \E q \in quar[w.id] : q.date = w.date /\ q.files = w.old.files
             /\ tarf[w.id].exists /\ tarf[w.id].valid
             /\ w.date \in RunsOf(tarf[w.id].files)

\* C6, amended: the same, for an update whose quarantine rename and whose
\* repack succeeded.
C6_Quarantined ==
    \A j \in DOMAIN tasks :
       LET w == tasks[j]
       IN w.pc = "returned" /\ w.extract = "quarantined" /\ w.repack = "ok" =>
             /\ \E q \in quar[w.id] : q.date = w.date /\ q.files = w.old.files
             /\ tarf[w.id].exists /\ tarf[w.id].valid
             /\ w.date \in RunsOf(tarf[w.id].files)

\* An update has quarantined a tar that held files and left a fresh tar.
C6_Witness ==
    \E j \in DOMAIN tasks :
       LET w == tasks[j]
       IN /\ w.pc = "returned" /\ w.extract = "quarantined" /\ w.repack = "ok"
          /\ w.old.files # {}
          /\ tarf[w.id].exists

\* C7 as claimed: an update whose extraction failed never raises, and its
\* result has the exception set.
C7_NeverRaises ==
    \A j \in DOMAIN tasks :
       LET w == tasks[j]
       IN ExtractFailed(w) =>
             /\ w.pc # "raised"
             /\ w.pc = "returned" => UR_corrupt_tar(UpdateResult(w))

\* C8 as claimed: after a failed extraction the fetches start from a scratch
\* directory without files of earlier runs, and so does the repacked tar.
C8_NoCorruptContent ==
    \A j \in DOMAIN tasks :
       LET w == tasks[j]
       IN ExtractFailed(w) =>
             /\ w.pc = "overview" => \A f \in dirs[w.id].files : f.run = w.date
             /\ w.repack = "ok" => \A f \in tarf[w.id].files : f.run = w.date

\* What C9 says of an update w whose package fetch was answered 304, up to
\* the result: a link to the run of the last package payload of the archive,
\* no payload in the run directory, the outcome NotModified.
LinkedNotModified(w) ==
    /\ Fetched(w) =>
          /\ \E f \in Snapshot(w) :
                /\ IsLinkName(f.name)
                /\ f.ref = LatestPackageRun(w.old.files)
                /\ f.ref # 0
          /\ ~HasPayload(Snapshot(w))
    /\ w.pc \in {"reviews", "support", "rename", "repack", "rmtree", "returned"} =>
          RR_not_modified(w.res_crx)
    /\ w.pc = "returned" => UR_not_modified(UpdateResult(w))

\* C9 as claimed: every package fetch answered 304 leaves the link and no
\* payload, its outcome is NotModified, and the result is_ok() whenever the
\* overview was answered 200.
C9_AsClaimed ==
    \A j \in DOMAIN tasks :
       LET w == tasks[j]
       IN w.crx.status = 304 =>
             /\ LinkedNotModified(w)
             /\ w.pc = "returned" /\ w.res_overview.http_status = 200 =>
                   UR_is_ok(UpdateResult(w))

\* C9, amended: a package fetch answered 304 whose sidecar and link writes
\* succeed leaves the link and no payload and its outcome is NotModified;
\* the result is_ok() when the overview outcome is Ok and, for a forum id,
\* the reviews and support outcomes are Ok too.
C9_NotModified ==
    \A j \in DOMAIN tasks :
       LET w == tasks[j]
       IN w.crx.status = 304 /\ w.res_crx.exception = "none" =>
             /\ LinkedNotModified(w)
             /\ /\ w.pc = "returned"
                /\ RR_is_ok(w.res_overview)
                /\ w.forums => RR_is_ok(w.res_reviews) /\ RR_is_ok(w.res_support)
                => UR_is_ok(UpdateResult(w))

\* The third update of an archive with two payloads was answered 304 and
\* has returned is_ok().
C9_Witness ==
    \E j \in DOMAIN tasks :
       LET w == tasks[j]
       IN /\ w.crx.status = 304
          /\ w.pc = "returned"
          /\ UR_is_ok(UpdateResult(w))
          /\ Cardinality({f \in w.old.files : IsCrxName(f.name)}) = 2

\* The package response of w is a 200 that validation must reject.
Rejected(w) ==
    /\ w.crx.status = 200
    /\ \/ w.crx.ctype # "application/x-chrome-extension"
       \/ w.crx.base # "extension_1.crx"

\* C10: after a 200 package response with a missing or wrong Content-Type or
\* a file name off the pattern, the run directory holds no payload and no
\* link, only sidecars and the exception file of the package, and the
\* package outcome has an exception and is not ok.
C10_RejectedNotStored ==
    \A j \in DOMAIN tasks :
       LET w == tasks[j]
           n == extfilename_of(w.crx)
       IN Rejected(w) /\ Fetched(w) =>
             /\ ~HasPayload(Snapshot(w))
             /\ \A f \in Snapshot(w) :
                   \/ f.name \in {n \o ".headers", n \o ".status", n \o ".url", n \o ".exception"}
                   \/ f.name \notin {n, n \o ".link"} /\ ~IsCrxName(f.name) /\ ~IsLinkName(f.name)
             /\ RR_has_exception(w.res_crx)
             /\ ~RR_is_ok(w.res_crx)

\* A text/html answer was rejected: its sidecars are in the run directory.
C10_Witness ==
    \E j \in DOMAIN tasks :
       LET w == tasks[j]
       IN /\ Rejected(w) /\ w.crx.ctype = "text/html" /\ w.pc = "rename"
          /\ w.res_crx.exception = "CrawlError"
          /\ \E f \in Snapshot(w) : f.name = "extension_1.crx.status"

\* The backup files of id on disk: <id>.bak.tar and the rotated backups.
BackupFiles(id) ==
    (IF bak[id].exists THEN {[name |-> "bak", date |-> 0]} ELSE {})
    \cup {[name |-> "bak.rotated", date |-> r] : r \in rot[id]}

\* The current archive files of id on disk.
CurrentFiles(id) == IF tarf[id].exists THEN {[name |-> "tar", date |-> 0]} ELSE {}

\* C11: in every state each id has at most one current archive file and at
\* most one backup file, <id>.bak.tar or a rotated backup.
C11_OneArchiveOneBackup ==
    \A id \in Ids :
       /\ Cardinality(CurrentFiles(id)) <= 1
       /\ Cardinality(BackupFiles(id)) <= 1

\* The third update of an id has moved the second tar over the backup of the
\* first and repacked: one current tar, one backup.
C11_Witness ==
    \E j \in DOMAIN tasks :
       LET w == tasks[j]
       IN /\ w.pc = "returned" /\ w.repack = "ok"
          /\ Len(hist[w.id].dates) = 3
          /\ bak[w.id].exists /\ bak[w.id] = w.old
          /\ Cardinality(RunsOf(bak[w.id].files)) = 2
          /\ tarf[w.id].exists

\* C12: an update that returns has its exception set exactly when the
\* extraction, the rename to the backup name, the repack or the removal of
\* the scratch directory failed in it, and none of these failures is what
\* makes an update raise.
C12_ArchiveFailuresRecorded ==
    \A j \in DOMAIN tasks :
       LET w == tasks[j]
       IN /\ w.pc = "returned" => (UR_corrupt_tar(UpdateResult(w)) <=> w.failed # {})
          /\ w.pc = "raised" => w.failed \subseteq {"extract"}
          /\ ExtractFailed(w) <=> "extract" \in w.failed

\* An update whose rename to the backup name failed, and nothing after it,
\* has returned with the exception set.
C12_Witness ==
    \E j \in DOMAIN tasks :
       LET w == tasks[j]
       IN /\ w.pc = "returned"
          /\ w.failed = {"rename"}
          /\ w.repack = "ok"
          /\ UR_corrupt_tar(UpdateResult(w))

\* C13 as claimed: when an update whose repack failed returns, there is no
\* current tar, neither the old archive nor a partial new one.
C13_NoTarAfterFailedRepack ==
    \A j \in DOMAIN tasks :
       LET w == tasks[j]
       IN w.pc = "returned" /\ w.repack = "failed" => ~tarf[w.id].exists

\* C14: at any moment of a call of update_extensions at most one update of
\* a forum id is in progress.
C14_OneForumAtATime ==
    Cardinality({j \in 1..nforum : Running(tasks[j])}) <= 1

\* The second forum id of a batch is being updated, the first has returned.
C14_Witness ==
    /\ bpc = "seq"
    /\ nforum = 2
    /\ tasks[1].pc = "returned"
    /\ tasks[2].pc = "crx"

\* C15: the list update_extensions returns holds one UpdateResult for every
\* id that was updated and no other, the result of that id's update, and
\* the results of the forum ids come before those of the other ids.
C15_ForumResultsFirst ==
    bpc = "done" =>
       /\ Len(ret) = Cardinality(Range(fullIds) \cup Range(forumIds))
       /\ Len(ret) = Len(tasks)
       /\ \A j \in DOMAIN tasks :
             Cardinality({k \in DOMAIN ret : ret[k] = UpdateResult(tasks[j])
                                             /\ ret[k].id = tasks[j].id}) = 1
       /\ \A a, b \in DOMAIN ret :
             ret[a].id \in Range(forumIds) /\ ret[b].id \notin Range(forumIds) => a < b

\* A batch of one forum id and one other id has returned its two results.
C15_Witness ==
    /\ bpc = "done"
    /\ Len(ret) = 2
    /\ ret[1].id \in Range(forumIds) /\ ret[1].res_reviews # NoResult
    /\ ret[2].id \notin Range(forumIds) /\ ret[2].res_reviews = NoResult

\* The three diagnostic sidecars of the artifact fname of a run.
Sidecars(date, fname) ==
    {[run |-> date, name |-> fname \o x, ref |-> 0] : x \in {".headers", ".status", ".url"}}

\* The overview fetch of w is over and the scratch directory still there.
PastOverview(w) == w.pc = "crx" \/ Fetched(w)

PastReviews(w) == w.forums /\ w.pc \in {"support", "rename", "repack", "rmtree"}

PastSupport(w) == w.forums /\ w.pc \in {"rename", "repack", "rmtree"}

\* C16 as claimed: whatever the outcome of a fetch, the sidecars of its
\* artifact are in the run directory once it is over.
C16_AsClaimed ==
    \A j \in DOMAIN tasks :
       LET w == tasks[j]
       IN /\ PastOverview(w) => Sidecars(w.date, "overview.html") \subseteq Snapshot(w)
          /\ Fetched(w) =>
                \E n \in {"extension_1.crx", "default.crx", "default_ext_archive.crx"} :
                   Sidecars(w.date, n) \subseteq Snapshot(w)
          /\ PastReviews(w) => Sidecars(w.date, "reviews000-099.text") \subseteq Snapshot(w)
          /\ PastSupport(w) => Sidecars(w.date, "support000-099.text") \subseteq Snapshot(w)

\* C16, amended: a fetch whose requests were answered, with whatever status,
\* and whose outcome carries no exception of a write leaves the sidecars of
\* each of its artifacts; a fetch whose (first) request raised leaves none.
C16_SidecarsOfAnswers ==
    \A j \in DOMAIN tasks :
       LET w == tasks[j]
           n == extfilename_of(w.crx)
           unanswered == RequestResult(NoStatus, "RequestException")
       IN /\ PastOverview(w) =>
                /\ w.res_overview.exception = "none" =>
                      Sidecars(w.date, "overview.html") \subseteq Snapshot(w)
                /\ w.res_overview = unanswered =>
                      Sidecars(w.date, "overview.html") \cap Snapshot(w) = {}
          /\ Fetched(w) =>
                /\ w.crx # NoResponse /\ w.res_crx.exception # "OSError" =>
                      Sidecars(w.date, n) \subseteq Snapshot(w)
                /\ w.res_crx = unanswered =>
                      \A x \in {"extension_1.crx", "default.crx", "default_ext_archive.crx"} :
                         Sidecars(w.date, x) \cap Snapshot(w) = {}
          /\ PastReviews(w) =>
                /\ w.res_reviews.exception = "none" =>
                      Sidecars(w.date, "reviews000-099.text")
                      \cup Sidecars(w.date, "reviews100-199.text") \subseteq Snapshot(w)
                /\ w.res_reviews = unanswered =>
                      Sidecars(w.date, "reviews000-099.text") \cap Snapshot(w) = {}
          /\ PastSupport(w) =>
                /\ w.res_support.exception = "none" =>
                      Sidecars(w.date, "support000-099.text")
                      \cup Sidecars(w.date, "support100-199.text") \subseteq Snapshot(w)
                /\ w.res_support = unanswered =>
                      Sidecars(w.date, "support000-099.text") \cap Snapshot(w) = {}

\* A forum update whose four fetches were answered, the overview with 404
\* and the second support page with 503: all sidecars are there.
C16_Witness ==
    \E j \in DOMAIN tasks :
       LET w == tasks[j]
       IN /\ PastSupport(w)
          /\ w.res_overview = RequestResult(404, "none")
          /\ w.res_support = RequestResult(503, "none")
          /\ w.res_reviews.exception = "none"
          /\ w.crx # NoResponse /\ w.res_crx.exception = "none"
          /\ Sidecars(w.date, "support100-199.text") \subseteq Snapshot(w)

\* The kinds of fetch the update w has issued a request for.
KindsOf(w) == {w.reqs[k].kind : k \in DOMAIN w.reqs}

\* The requests of one kind, in the order they were issued.
ReqsOf(w, kind) == SelectSeq(w.reqs, LAMBDA r : r.kind = kind)

\* The update w is over, and it got as far as its first fetch.
Over(w) == w.pc \in {"returned", "raised"} /\ w.reqs # <<>>

\* C17 as claimed: an update that has started fetching attempts the package
\* fetch whatever became of the overview fetch and, for a forum id, the
\* reviews and support fetches whatever became of the earlier ones; for
\* another id it makes the overview and package fetches only, and the
\* reviews and support results are absent.
C17_EveryFetchAttempted ==
    \A j \in DOMAIN tasks :
       LET w == tasks[j]
       IN Over(w) =>
             /\ {"overview", "crx"} \subseteq KindsOf(w)
             /\ w.forums => {"reviews", "support"} \subseteq KindsOf(w)
             /\ ~w.forums =>
                   /\ KindsOf(w) = {"overview", "crx"}
                   /\ w.res_reviews = NoResult /\ w.res_support = NoResult

\* The answers to the POSTs of one kind.
AnswersOf(w, kind) == SelectSeq(w.answers, LAMBDA a : a.kind = kind)

\* A POST of the kind raised or was answered with a status other than 200.
PageFailed(w, kind) ==
    \E k \in DOMAIN AnswersOf(w, kind) : AnswersOf(w, kind)[k].status # 200

\* C18 as claimed: an update that returns has issued the overview GET and
\* the package GET once each, no update issues the same page POST twice, and
\* a fetch that failed shows as an exception or a status other than 200 on
\* the result.
C18_NoRetry ==
    \A j \in DOMAIN tasks :
       LET w == tasks[j]
       IN /\ Len(ReqsOf(w, "overview")) <= 1 /\ Len(ReqsOf(w, "crx")) <= 1
          /\ w.pc = "returned" =>
                Len(ReqsOf(w, "overview")) = 1 /\ Len(ReqsOf(w, "crx")) = 1
          /\ \A a, b \in DOMAIN w.reqs : a # b => w.reqs[a] # w.reqs[b]
          /\ w.pc = "returned" =>
                \A kind \in {"reviews", "support"} :
                   LET r == IF kind = "reviews" THEN w.res_reviews ELSE w.res_support
                   IN PageFailed(w, kind) => RR_has_exception(r) \/ r.http_status # 200

\* C19 as claimed: a forum update whose two POSTs of a kind were issued
\* asked for offset 0 and then for offset 100, and stored the answers as
\* the 000-099 and the 100-199 artifact.
C19_Offsets ==
    \A j \in DOMAIN tasks :
       LET w == tasks[j]
       IN \A kind \in {"reviews", "support"} :
             Len(ReqsOf(w, kind)) = 2 =>
                /\ ReqsOf(w, kind)[1].offset = 0
                /\ ReqsOf(w, kind)[2].offset = 100
                /\ (IF kind = "reviews" THEN PastReviews(w) /\ w.res_reviews.exception = "none"
                                        ELSE PastSupport(w) /\ w.res_support.exception = "none")
                   => {File(w.date, kind \o "000-099.text"),
                       File(w.date, kind \o "100-199.text")} \subseteq Snapshot(w)

\* C20 as claimed: when one of the two page requests of a kind raised or was
\* answered with a status other than 200, the outcome of the kind is not Ok.
C20_EitherPageFails ==
    \A j \in DOMAIN tasks :
       LET w == tasks[j]
       IN /\ PastReviews(w) /\ PageFailed(w, "reviews") => ~RR_is_ok(w.res_reviews)
          /\ PastSupport(w) /\ PageFailed(w, "support") => ~RR_is_ok(w.res_support)

\* The update w has begun: it has its date.
Begun(w) == w.pc \notin {"wait", "begin"}

\* C21 as claimed: the first update of an id that creates its archive reports
\* is_new, and no update that comes after it does.
C21_AsClaimed ==
    \A j \in DOMAIN tasks :
       LET w == tasks[j]
           made == hist[w.id].made
       IN Begun(w) =>
             /\ w.repack = "ok" /\ made = 1 => w.is_new
             /\ (w.repack = "ok" /\ made > 1) \/ (w.repack # "ok" /\ made > 0) => ~w.is_new

\* C21, amended: is_new is true exactly when the id has no current tar as the
\* update begins; as long as no update of the id has raised or recorded an
\* archive exception, that is the first update and no later one.
C21_NewWithoutTar ==
    \A j \in DOMAIN tasks :
       LET w == tasks[j]
       IN Begun(w) =>
             /\ w.is_new <=> (w.old = NoFile /\ w.extract = "none")
             /\ ~hist[w.id].dirty => (w.is_new <=> Len(hist[w.id].dates) = 1)

\* The third clean update of an id has returned, not new.
C21_Witness ==
    \E j \in DOMAIN tasks :
       LET w == tasks[j]
       IN /\ w.pc = "returned" /\ ~w.is_new
          /\ ~hist[w.id].dirty
          /\ Len(hist[w.id].dates) = 3

\* The package fetch of w is over and the current tar is still the one the
\* fetch found.
BeforeRename(w) == w.pc \in {"reviews", "support", "rename"}

\* The package files proper among files: the names a payload is written
\* under, not their sidecars, links or exception files.
Payloads(files) == {f \in files : f.name \in {"extension_1.crx", "default.crx"}}

\* C22: the package request carries If-Modified-Since (since # 0) exactly
\* when the current tar holds a package payload, and the value is the run of
\* the last payload; links and sidecars do not count.
C22_IfModifiedSince ==
    \A j \in DOMAIN tasks :
       LET w == tasks[j]
           t == tarf[w.id]
           r == ReqsOf(w, "crx")
       IN BeforeRename(w) /\ Len(r) = 1 =>
             /\ r[1].since # 0 <=> (t.exists /\ Payloads(t.files) # {})
             /\ r[1].since # 0 =>
                   /\ r[1].since \in RunsOf(Payloads(t.files))
                   /\ \A f \in Payloads(t.files) : f.run <= r[1].since

\* The archive's last run holds a link and no payload: the request of the
\* third update carries the date of the first run.
C22_Witness ==
    \E j \in DOMAIN tasks :
       LET w == tasks[j]
           t == tarf[w.id]
           r == ReqsOf(w, "crx")
       IN /\ BeforeRename(w) /\ Len(r) = 1
          /\ Cardinality(RunsOf(t.files)) = 2
          /\ \E f \in t.files : f.ref # 0 /\ f.run > r[1].since
          /\ r[1].since # 0

\* The fetches crawl_nearly_all_of_ext_ids has made so far.
FetchesMade == disc.index \o disc.shards

\* The call is over.
DiscoveryOver == disc.pc \in {"returned", "raised"}

\* The listing URLs of the shards fetched, in order.
ListedUrls == Concat([k \in 1..Len(disc.shards) |-> disc.shards[k].doc.locs])

\* The URLs of the index that have the form of a shard URL, in order.
MatchingShards ==
    IF disc.index = <<>> THEN <<>>
    ELSE SelectSeq(disc.index[1].doc.locs, LAMBDA u : u \in GenericUrls)

\* The call has returned the ids of the listing URLs of exactly the shards
\* whose URL matches.
ReturnedListedIds ==
    /\ disc.pc = "returned"
    /\ disc.shard_urls = MatchingShards
    /\ Len(disc.shards) = Len(MatchingShards)
    /\ Len(disc.result) = Len(ListedUrls)
    /\ \A k \in 1..Len(ListedUrls) :
          /\ disc.result[k] # ""
          /\ ListedUrls[k] = "detail/" \o disc.result[k]

\* C23 as claimed: when a fetch failed (it raised, or was answered with an
\* error status) the call does not return, and when every fetch succeeded
\* it returns the ids of the listing URLs of the matching shards.
C23_AsClaimed ==
    /\ (\E k \in 1..Len(FetchesMade) :
           FetchesMade[k].raised \/ FetchesMade[k].status # 200)
       => disc.pc # "returned" /\ disc.result = <<>>
    /\ (DiscoveryOver /\ \A k \in 1..Len(FetchesMade) :
                            ~FetchesMade[k].raised /\ FetchesMade[k].status = 200)
       => ReturnedListedIds

\* C23, amended: when a request raises the call raises and returns nothing;
\* when no request raises, every text parses and every listing URL holds an
\* id, it returns the ids of the listing URLs of exactly the matching
\* shards, whatever the statuses of the answers; and it returns nothing else.
C23_Discovery ==
    /\ (\E k \in 1..Len(FetchesMade) : FetchesMade[k].raised)
       => disc.pc = "raised" /\ disc.result = <<>>
    /\ (/\ DiscoveryOver
        /\ \A k \in 1..Len(FetchesMade) :
              ~FetchesMade[k].raised /\ FetchesMade[k].doc.parsable
        /\ \A k \in 1..Len(ListedUrls) : ListedUrls[k] \in {"detail/aaab", "detail/aaac"})
       => ReturnedListedIds
    /\ disc.pc = "returned" => ReturnedListedIds
    /\ disc.pc # "returned" => disc.result = <<>>

\* An index of a shard URL and another URL: the one shard was fetched and
\* the ids of its two listing URLs returned.
C23_Witness ==
    /\ disc.pc = "returned"
    /\ Len(disc.index[1].doc.locs) = 2
    /\ \E k \in 1..2 : disc.index[1].doc.locs[k] \notin GenericUrls
    /\ Len(disc.shards) = 1
    /\ disc.result = <<"aaab", "aaac">>

\* C24 as claimed: every call of update_extensions that has started returns,
\* and every update_extension that has started returns a result.
C24_Terminates ==
    /\ (bpc = "seq") ~> (bpc = "done")
    /\ \A i \in 1..Cardinality(Ids) :
          (i \in DOMAIN tasks /\ Running(tasks[i]))
          ~> (i \in DOMAIN tasks /\ tasks[i].pc = "returned")

\* A step of the update in slot i, after it has begun.
TaskStep(i) ==
    /\ i \in DOMAIN tasks /\ i \in DOMAIN tasks'
    /\ tasks[i].date # 0 /\ tasks'[i].date = tasks[i].date /\ tasks'[i].id = tasks[i].id

\* The steps of an update, by what they do.
FetchStep(i) == TaskStep(i) /\ Len(tasks'[i].reqs) > Len(tasks[i].reqs)
RenameStep(i) ==
    /\ TaskStep(i)
    /\ \/ bak'[tasks[i].id] # bak[tasks[i].id]
       \/ "rename" \in tasks'[i].failed \ tasks[i].failed
RepackStep(i) == TaskStep(i) /\ tasks[i].repack = "none" /\ tasks'[i].repack # "none"
RemoveStep(i) ==
    /\ TaskStep(i)
    /\ \/ dirs[tasks[i].id].files \ dirs'[tasks[i].id].files # {}
       \/ dirs[tasks[i].id].exists /\ ~dirs'[tasks[i].id].exists
       \/ "remove" \in tasks'[i].failed \ tasks[i].failed

\* What extraction has left of the old tar is in the scratch directory.
Unpacked(w) ==
    /\ w.old.exists => w.extract # "none"
    /\ w.extract = "ok" => w.old.files \subseteq dirs[w.id].files
    /\ w.extract \in {"stuck", "quarantined"} => w.part \subseteq dirs[w.id].files

\* The current tar is where the update found it (or in quarantine).
NotYetRenamed(w) ==
    /\ "rename" \notin w.failed
    /\ w.extract # "quarantined" => tarf[w.id] = w.old
    /\ w.extract = "quarantined" => ~tarf[w.id].exists

\* C25: within one update a fetch starts only when extraction is over, with
\* the current tar not yet renamed and nothing repacked; the rename comes
\* when every fetch of the run has been made and before the repack; the
\* repack finds the old tar renamed, or the rename failed; and the scratch
\* directory is removed only after the repack was attempted.
C25_StepOrder ==
    [][\A i \in 1..Cardinality(Ids) :
          /\ FetchStep(i) =>
                /\ Unpacked(tasks[i])
                /\ NotYetRenamed(tasks[i])
                /\ tasks[i].repack = "none"
          /\ RenameStep(i) =>
                /\ {"overview", "crx"} \subseteq KindsOf(tasks[i])
                /\ tasks[i].forums => {"reviews", "support"} \subseteq KindsOf(tasks[i])
                /\ NotYetRenamed(tasks[i])
                /\ tasks[i].repack = "none"
                /\ ~FetchStep(i)
          /\ RepackStep(i) =>
                /\ ~tarf[tasks[i].id].exists \/ "rename" \in tasks[i].failed
                /\ tasks[i].old.exists /\ tasks[i].extract = "ok"
                     /\ "rename" \notin tasks[i].failed
                   => bak[tasks[i].id] = tasks[i].old
                /\ "remove" \notin tasks[i].failed
                /\ ~RenameStep(i)
          /\ RemoveStep(i) => tasks[i].repack # "none" /\ ~RepackStep(i)
      ]_vars

\* An update of a forum id has extracted the old tar, fetched, renamed,
\* repacked and removed the scratch directory.
C25_Witness ==
    \E i \in DOMAIN tasks :
       LET w == tasks[i]
       IN /\ w.pc = "returned" /\ w.forums
          /\ w.old.exists /\ w.extract = "ok"
          /\ {"overview", "crx", "reviews", "support"} \subseteq KindsOf(w)
          /\ bak[w.id] = w.old
          /\ w.repack = "ok" /\ w.old.files \subseteq tarf[w.id].files
          /\ ~dirs[w.id].exists

\* C26: in a batch no update of the pool has started while an update of the
\* sequential path has not returned.
C26_PoolAfterForums ==
    \A j \in DOMAIN tasks :
       j > nforum /\ tasks[j].pc # "wait" =>
          \A k \in 1..nforum : tasks[k].pc = "returned"

\* A pool update is under way in a batch that had a forum update.
C26_Witness ==
    /\ nforum >= 1
    /\ \E j \in DOMAIN tasks : j > nforum /\ Running(tasks[j])
    /\ tasks[1].pc = "returned" /\ tasks[1].reqs # <<>>

\* The files kept for the id B: current tar, backup, rotated backups,
\* quarantined tars and scratch directory.
FilesOf(B) == <<tarf[B], bak[B], rot[B], quar[B], dirs[B]>>

\* A step of the update in slot i, and of no other update.
StepOf(i) ==
    /\ i \in DOMAIN tasks /\ i \in DOMAIN tasks'
    /\ tasks'[i] # tasks[i] /\ tasks'[i].id = tasks[i].id
    /\ tasks[i].pc # "wait"
    /\ \A j \in DOMAIN tasks \ {i} : j \in DOMAIN tasks' /\ tasks'[j] = tasks[j]

\* C27: a step that changes a file of the id B is a step of the update of B;
\* a step of an update of another id A leaves the files of B as they were,
\* whether or not B is being updated at the time.
C27_Frame ==
    [][\A B \in Ids :
          /\ FilesOf(B)' # FilesOf(B) =>
                \E i \in DOMAIN tasks : StepOf(i) /\ tasks[i].id = B
          /\ \A i \in DOMAIN tasks :
                StepOf(i) /\ tasks[i].id # B => FilesOf(B)' = FilesOf(B)
      ]_vars

\* Two ids of the shard "aaa" are being updated at once, each with files of
\* its own on disk.
C27_Witness ==
    \E i, j \in DOMAIN tasks :
       /\ tasks[i].id = "aaab" /\ tasks[j].id = "aaac"
       /\ Running(tasks[i]) /\ Running(tasks[j])
       /\ tasks[i].reqs # <<>> /\ tasks[j].reqs # <<>>
       /\ tarf["aaab"].exists /\ dirs["aaab"].files # {} /\ dirs["aaac"].files # {}
       /\ dirs["aaab"].files # dirs["aaac"].files

\* The update w has returned; it found a tar that extracted, and none of its
\* archive steps failed.
CleanUpdate(w) ==
    /\ w.pc = "returned"
    /\ w.old.exists /\ w.extract = "ok"
    /\ w.failed = {} /\ w.tar_exception = "none"

\* C28: after such an update the backup is the tar the update found, and it
\* holds the current archive less the run directory of the update.
C28_BackupIsPrevious ==
    \A j \in DOMAIN tasks :
       LET w == tasks[j]
       IN CleanUpdate(w) =>
             /\ bak[w.id] = w.old
             /\ bak[w.id].files = {f \in tarf[w.id].files : f.run # w.date}
             /\ RunsOf(bak[w.id].files) = RunsOf(tarf[w.id].files) \ {w.date}

\* A third clean update has returned: the backup of the second was replaced.
C28_Witness ==
    \E j \in DOMAIN tasks :
       LET w == tasks[j]
       IN /\ CleanUpdate(w)
          /\ Cardinality(RunsOf(w.old.files)) = 2
          /\ Cardinality(RunsOf(tarf[w.id].files)) = 3
          /\ bak[w.id] = w.old

\* The files the update w wrote in its run directory, as they were when it
\* returned.
RunSnapshot(w) == {f \in hist[w.id].snap : f.run = w.date}

\* The current tar of the id of w exists and holds the run directory of w.
Archived(w) ==
    /\ tarf[w.id].exists
    /\ RunSnapshot(w) # {}
    /\ RunSnapshot(w) \subseteq tarf[w.id].files

\* C29 as claimed: a result that reports is_ok() reports no archive
\* exception, and the current tar exists and holds the run of the update.
C29_AsClaimed ==
    \A j \in DOMAIN tasks :
       LET w == tasks[j]
       IN w.pc = "returned" /\ UR_is_ok(UpdateResult(w)) =>
             ~UR_corrupt_tar(UpdateResult(w)) /\ Archived(w)

\* C29: is_ok() is computed from the fetch results alone. A result that
\* reports is_ok() and no archive exception is of an update whose run is in
\* the current tar.
C29_OkAndNotCorrupt ==
    \A j \in DOMAIN tasks :
       LET w == tasks[j]
       IN w.pc = "returned" /\ UR_is_ok(UpdateResult(w))
             /\ ~UR_corrupt_tar(UpdateResult(w))
          => Archived(w)

\* A second update returned is_ok() with no archive exception.
C29_Witness ==
    \E j \in DOMAIN tasks :
       LET w == tasks[j]
       IN /\ w.pc = "returned" /\ w.old.exists
          /\ UR_is_ok(UpdateResult(w)) /\ ~UR_corrupt_tar(UpdateResult(w))
          /\ Archived(w)

\* The link records among files.
Links(files) == {f \in files : IsLinkName(f.name)}

\* C30 as claimed: every link record of a current tar names a run directory
\* of the same tar that holds a package payload.
C30_LinksResolve ==
    \A id \in Ids :
       tarf[id].exists =>
          \A f \in Links(tarf[id].files) :
             \E g \in Payloads(tarf[id].files) : g.run = f.ref
====
